---- MODULE Spec2Model ----
(***************************************************************************)
(* A model of src/src/CesiumViewer.jsx: the two helpers                    *)
(* calculatePositionAtTime and calculateFovFootprint, and the CesiumViewer *)
(* component's effect (viewer construction, the sampling sweep, the        *)
(* entities, the clock-tick listeners, the CZML load and its continuation, *)
(* the mouse handler and the cleanup).                                     *)
(*                                                                         *)
(* Units.  Instants are integer milliseconds (the resolution of a JS Date).*)
(* Angles are thousandths of a radian or of a degree.  Lengths are the     *)
(* code's own: kilometres out of the propagator, then "height * 1000".     *)
(* JS numbers are records so that NaN is a value of its own.               *)
(***************************************************************************)
EXTENDS Integers, Sequences, FiniteSets, TLC

VARIABLES
    satrec,          \* what twoline2satrec(tleLine1, tleLine2) stands for
    iterationMs,     \* wall-clock ms one iteration of the sampling loop takes
    czml,            \* what '/simple.czml' holds
    duration,        \* seconds the sampling loop covers (3600 in the code)
    now,             \* the wall clock, ms (what JulianDate.now() reads)
    mounted,         \* the component is mounted
    runs,            \* number of effect runs so far; run r creates viewer r
    viewerRef,       \* viewerRef.current: 0 is null, else a viewer id
    viewerState,     \* per viewer: "none" | "live" | "destroyed"
    handlerAlive,    \* per run: its ScreenSpaceEventHandler is not destroyed
    samples,         \* per run: the samples of its SampledPositionProperty
    sweepDone,       \* per run: its sampling loop has finished
    sweepStart,      \* per run: the wall clock when its loop began
    entities,        \* per viewer: the entities added to viewer.entities
    dataSources,     \* per viewer: the data sources added to viewer.dataSources
    tickListeners,   \* per viewer: the listeners added to viewer.clock.onTick
    clockTime,       \* per viewer: viewer.clock.currentTime (a JulianDate)
    cylinder,        \* per viewer: the last evaluated cylinder dimensions
    load,            \* per run: state of czmlDataSource.load('/simple.czml')
    footprintArea,   \* React state footprintArea
    footprintCall,   \* the calculateFovFootprint call behind footprintArea
    hoverInfo,       \* React state hoverInfo
    frames,          \* number of rendered frames (bounded)
    callArgs,        \* arguments of a direct call of a helper
    callResult       \* what that call returned

vars == <<satrec, iterationMs, czml, duration, now, mounted, runs, viewerRef, viewerState,
          handlerAlive, samples, sweepDone, sweepStart, entities, dataSources,
          tickListeners, clockTime, cylinder, load, footprintArea,
          footprintCall, hoverInfo, frames,
          callArgs, callResult>>

----------------------------------------------------------------------------
(* Bounds of the model *)

MaxRuns == 2          \* effect runs (mount plus colour changes)
MaxFrames == 2        \* rendered frames
FrameMs == 16         \* wall-clock ms from one rendered frame to the next
ShortSweepSeconds == 40  \* the loop's length where the sweep is shortened

(* Program constants *)

SweepSeconds == 3600  \* for (let i = 0; i < 3600; ...
StepSeconds == 10     \* ... i += 10)
FovAngle == 45        \* calculateFovFootprint(position.height, 45)
MetresPerKm == 1000   \* positionGd.height * 1000
CylinderHalfAngleMilliDeg == 22500  \* Cesium.Math.toRadians(22.5)

(* Constants of the libraries the code calls *)

MsPerSecond == 1000
MsPerDay == 86400000
BodyRadiusKm == 6378   \* satellite.js earth radius, km

----------------------------------------------------------------------------
(* JS values *)

Num(n) == [finite |-> TRUE, v |-> n]
NaN == [finite |-> FALSE, v |-> 0]
isFinite(n) == n.finite
JsFalse == [t |-> "false"]
Undefined == [t |-> "undefined"]
Falsy(v) == v.t \in {"false", "undefined"}

Abs(n) == IF n < 0 THEN -n ELSE n

----------------------------------------------------------------------------
(* Cesium JulianDate: a whole day number and the time of day.  A JS Date is *)
(* a count of ms.                                                           *)

JulianFromDate(ms) == [dayNumber |-> ms \div MsPerDay, msOfDay |-> ms % MsPerDay]

JulianNow(wall) == JulianFromDate(wall)

JulianAddSeconds(j, s) ==
    LET total == j.msOfDay + (s * MsPerSecond)
    IN  [dayNumber |-> j.dayNumber + (total \div MsPerDay),
         msOfDay |-> total % MsPerDay]

JulianAddMs(j, ms) ==
    LET total == j.msOfDay + ms
    IN  [dayNumber |-> j.dayNumber + (total \div MsPerDay),
         msOfDay |-> total % MsPerDay]

JulianToDate(j) == (j.dayNumber * MsPerDay) + j.msOfDay

\* JulianDate.compare(a, b) < 0
JulianLess(a, b) ==
    \/ a.dayNumber < b.dayNumber
    \/ a.dayNumber = b.dayNumber /\ a.msOfDay < b.msOfDay

\* JulianDate.secondsDifference(a, b), in ms
JulianDiffMs(a, b) ==
    ((a.dayNumber - b.dayNumber) * MsPerDay) + (a.msOfDay - b.msOfDay)

----------------------------------------------------------------------------
(* satellite.js, as far as the code relies on it.  A satrec is modelled by  *)
(* the dates at which its propagation fails: never ("valid"), always        *)
(* ("decayed"), or inside a window of dates ("window").                     *)

ValidOrbit == [kind |-> "valid", failFrom |-> 0, failUntil |-> 0]
DecayedOrbit == [kind |-> "decayed", failFrom |-> 0, failUntil |-> 0]
WindowOrbit(a, b) == [kind |-> "window", failFrom |-> a, failUntil |-> b]

\* The wall clock at the start of a behaviour: 15 seconds before the day
\* number of a JulianDate changes, so that a sweep crosses the change.
StartOfTime == MsPerDay - 15000

Satrecs == {ValidOrbit, DecayedOrbit,
            WindowOrbit(StartOfTime + 5000, StartOfTime + 25000)}

PropagationFails(rec, date) ==
    \/ rec.kind = "decayed"
    \/ rec.kind = "window" /\ rec.failFrom <= date /\ date < rec.failUntil

\* mean motion of the element set: about 1.127 mrad/s
OrbitPhase(date) == (((date \div MsPerSecond) * 1127) \div 1000) % 6283

\* propagate(satellite, date): {position, velocity}, both false on failure.
\* The position is held in polar form: right ascension and declination in
\* mrad, radius in km.
propagate(rec, date) ==
    IF PropagationFails(rec, date)
    THEN [position |-> JsFalse, velocity |-> JsFalse]
    ELSE LET ph == OrbitPhase(date)
         IN  [position |-> [t |-> "eci",
                            ra |-> ph,
                            dec |-> ((Abs(((ph + 1571) % 6283) - 3141) - 1571) * 901) \div 1571,
                            r |-> 6798 + ((ph \div 1000) % 3)],
              velocity |-> [t |-> "eci"]]

\* gstime(date): the sidereal angle, mrad (0.0729 mrad/s)
gstime(date) == (((date \div MsPerSecond) * 73) \div 1000) % 6283

WrapAngle(a) == ((a + 3141) % 6283) - 3141

\* eciToGeodetic(eci, gmst): longitude and latitude in mrad, height in km
eciToGeodetic(eci, gmst) ==
    [longitude |-> WrapAngle(eci.ra - gmst),
     latitude |-> eci.dec,
     height |-> eci.r - BodyRadiusKm]

\* degreesToRadians(d) = d * pi / 180, on thousandths
degreesToRadians(d) == (d * 17453) \div 1000000

\* geodeticToEcf({longitude, latitude, height}): the height is added to the
\* body radius in km; the direction is taken to second order in the angles
\* (they are at most 55 mrad after the code's degreesToRadians).
geodeticToEcf(g) ==
    LET r == BodyRadiusKm + g.height
        a2 == (g.longitude * g.longitude) + (g.latitude * g.latitude)
    IN  [x |-> r - ((r \div 1000) * a2) \div 2000,
         y |-> (r * g.longitude) \div 1000,
         z |-> (r * g.latitude) \div 1000]

----------------------------------------------------------------------------
(* The helpers of CesiumViewer.jsx *)

\* A variant that answers a failed propagation with the origin
calculatePositionAtTimeOrigin(rec, date) ==
    LET positionAndVelocity == propagate(rec, date)
    IN  IF Falsy(positionAndVelocity.position) \/ Falsy(positionAndVelocity.velocity)
        THEN [x |-> Num(0), y |-> Num(0), z |-> Num(0), height |-> Num(0)]
        ELSE LET positionGd == eciToGeodetic(positionAndVelocity.position, gstime(date))
                 height == positionGd.height * MetresPerKm
                 cartesianPosition ==
                     geodeticToEcf([longitude |-> degreesToRadians(positionGd.longitude),
                                    latitude |-> degreesToRadians(positionGd.latitude),
                                    height |-> height])
             IN  [x |-> Num(cartesianPosition.x),
                  y |-> Num(cartesianPosition.y),
                  z |-> Num(cartesianPosition.z),
                  height |-> Num(height)]

calculatePositionAtTime(rec, date) ==
    LET positionAndVelocity == propagate(rec, date)
    IN  IF Falsy(positionAndVelocity.position) \/ Falsy(positionAndVelocity.velocity)
        THEN [x |-> NaN, y |-> NaN, z |-> NaN]
        ELSE LET positionEci == positionAndVelocity.position
                 gmst == gstime(date)
                 positionGd == eciToGeodetic(positionEci, gmst)
                 longitude == degreesToRadians(positionGd.longitude)
                 latitude == degreesToRadians(positionGd.latitude)
                 height == positionGd.height * MetresPerKm
                 cartesianPosition ==
                     geodeticToEcf([longitude |-> longitude,
                                    latitude |-> latitude,
                                    height |-> height])
             IN  [x |-> Num(cartesianPosition.x),
                  y |-> Num(cartesianPosition.y),
                  z |-> Num(cartesianPosition.z),
                  height |-> Num(height)]

\* Math.tan, in hundredths, on the half-angles (mrad) the model passes.
\* tan(pi/2) is a very large finite number in JS; it is held as 1000.00.
MathTan(mrad) ==
    CASE mrad = 0 -> 0
      [] mrad = 392 -> 41        \* 22.5 degrees
      [] mrad = 785 -> 100       \* 45 degrees
      [] mrad = 1570 -> 100000   \* 90 degrees
      [] mrad = 1745 -> -567     \* 100 degrees

\* calculateFovFootprint(height, fovAngle): the string area.toFixed(2), held
\* as the number of hundredths it spells.  height is a JS number in metres,
\* fovAngle is in degrees.
calculateFovFootprint(height, fovAngle) ==
    LET fovRadius == (height.v * MathTan(degreesToRadians((fovAngle * 1000) \div 2))) \div 100
        \* Math.PI * fovRadius * fovRadius / 1000000, times 100: the division
        \* by 1000000 is taken on the radius, as 1000 * 1000
        rKm == fovRadius \div 1000
        hundredths == rKm * rKm * 314
    IN  IF isFinite(height)
        THEN [t |-> "string", hundredths |-> hundredths]
        ELSE [t |-> "string", hundredths |-> -1]   \* "NaN"

----------------------------------------------------------------------------
(* Cesium Cartesian3 and SampledPositionProperty *)

Cartesian3(x, y, z) == [t |-> "cartesian", x |-> x, y |-> y, z |-> z]

\* floor of the square root, searched upwards from a power-of-two estimate
RECURSIVE SqrtLow(_, _)
SqrtLow(n, r) == IF (2 * r) * (2 * r) <= n THEN SqrtLow(n, 2 * r) ELSE r

RECURSIVE SqrtBisect(_, _, _)
SqrtBisect(n, lo, hi) ==
    IF hi - lo <= 1 THEN lo
    ELSE LET mid == (lo + hi) \div 2
         IN  IF mid * mid <= n THEN SqrtBisect(n, mid, hi) ELSE SqrtBisect(n, lo, mid)

MathSqrt(n) == IF n = 0 THEN 0 ELSE LET lo == SqrtLow(n, 1) IN SqrtBisect(n, lo, 2 * lo)

\* Cartesian3.magnitude(c), to the nearest 1000 below (the squares are taken
\* on thousands to stay within 32-bit integers)
Magnitude(c) ==
    LET x == c.x.v \div 1000
        y == c.y.v \div 1000
        z == c.z.v \div 1000
    IN  Num(MathSqrt((x * x) + (y * y) + (z * z)) * 1000)

\* SampledPositionProperty.addSample(time, position): the samples stay
\* sorted by time, and a sample at an instant already held replaces it.
addSample(ss, time, position) ==
    LET s == [time |-> time, position |-> position]
    IN  IF ss = <<>> \/ JulianLess(ss[Len(ss)].time, time)
        THEN Append(ss, s)
        ELSE LET before == SelectSeq(ss, LAMBDA e : JulianLess(e.time, time))
                 after == SelectSeq(ss, LAMBDA e : JulianLess(time, e.time))
             IN  before \o <<s>> \o after

LerpNum(a, b, num, den) ==
    IF isFinite(a) /\ isFinite(b)
    THEN Num(a.v + (((b.v - a.v) * num) \div den))
    ELSE NaN

\* SampledPositionProperty.getValue(time): linear interpolation between the
\* neighbouring samples, undefined outside the sampled interval.
getValue(ss, time) ==
    IF ss = <<>> \/ JulianLess(time, ss[1].time) \/ JulianLess(ss[Len(ss)].time, time)
    THEN Undefined
    ELSE LET i == CHOOSE k \in 1..Len(ss) :
                      /\ ~JulianLess(time, ss[k].time)
                      /\ (k = Len(ss) \/ JulianLess(time, ss[k + 1].time))
         IN  IF i = Len(ss) \/ ss[i].time = time
             THEN ss[i].position
             ELSE LET a == ss[i].position
                      b == ss[i + 1].position
                      \* in tenths of a second
                      num == JulianDiffMs(time, ss[i].time) \div 100
                      den == JulianDiffMs(ss[i + 1].time, ss[i].time) \div 100
                  IN  IF den = 0 THEN a
                      ELSE Cartesian3(LerpNum(a.x, b.x, num, den),
                                      LerpNum(a.y, b.y, num, den),
                                      LerpNum(a.z, b.z, num, den))

----------------------------------------------------------------------------
(* The sampling loop of the effect, lines 68-81.  st holds the loop's        *)
(* variables: i, the number n of iterations done, the samples added so far, *)
(* and the last footprint handed to setFootprintArea.  The wall clock reads *)
(* start + n * drift in iteration n.                                        *)

WallClockAt(start, drift, n) == start + (n * drift)

\* what JulianDate.now() returns in iteration n
LoopNow(start, drift, n) == JulianNow(WallClockAt(start, drift, n))

\* A variant of the loop body that leaves the loop at the first failure
LoopBodyAbortOnFailure(rec, start, drift, st) ==
    LET julianDate == JulianAddSeconds(LoopNow(start, drift, st.n), st.i)
        position == calculatePositionAtTime(rec, JulianToDate(julianDate))
    IN  IF isFinite(position.x) /\ isFinite(position.y) /\ isFinite(position.z)
        THEN [i |-> st.i + StepSeconds,
              n |-> st.n + 1,
              samples |-> addSample(st.samples, julianDate,
                                    Cartesian3(position.x, position.y, position.z)),
              footprintArea |-> calculateFovFootprint(position.height, FovAngle),
              footprintCall |-> [published |-> TRUE,
                                 height |-> position.height,
                                 fovAngle |-> FovAngle,
                                 position |-> position,
                                 at |-> julianDate]]
        ELSE [st EXCEPT !.i = SweepSeconds, !.n = st.n + 1]

\* A variant of the loop body without the isFinite test: position.height of
\* a failed propagation is undefined, which calculateFovFootprint turns to NaN
LoopBodyUnguarded(rec, start, drift, st) ==
    LET julianDate == JulianAddSeconds(LoopNow(start, drift, st.n), st.i)
        position == calculatePositionAtTime(rec, JulianToDate(julianDate))
        height == IF isFinite(position.x) THEN position.height ELSE NaN
    IN  [i |-> st.i + StepSeconds,
         n |-> st.n + 1,
         samples |-> addSample(st.samples, julianDate,
                               Cartesian3(position.x, position.y, position.z)),
         footprintArea |-> calculateFovFootprint(height, FovAngle),
         footprintCall |-> [published |-> TRUE,
                            height |-> height,
                            fovAngle |-> FovAngle,
                            position |-> position,
                            at |-> julianDate]]

LoopBody(rec, start, drift, st) ==
    LET julianDate == JulianAddSeconds(LoopNow(start, drift, st.n), st.i)
        date == JulianToDate(julianDate)
        position == calculatePositionAtTime(rec, date)
    IN  IF isFinite(position.x) /\ isFinite(position.y) /\ isFinite(position.z)
        THEN LET footprint == calculateFovFootprint(position.height, FovAngle)
             IN  [i |-> st.i + StepSeconds,
                  n |-> st.n + 1,
                  samples |-> addSample(st.samples, julianDate,
                                        Cartesian3(position.x, position.y, position.z)),
                  footprintArea |-> footprint,
                  footprintCall |-> [published |-> TRUE,
                                     height |-> position.height,
                                     fovAngle |-> FovAngle,
                                     position |-> position,
                                     at |-> julianDate]]
        ELSE [st EXCEPT !.i = st.i + StepSeconds, !.n = st.n + 1]

\* `count` iterations of the loop from st, or fewer when the loop's condition
\* ends it first.  The iterations are split in halves only to keep the
\* evaluation shallow; they run in order, each on the state the one before
\* it left.
RECURSIVE LoopIterations(_, _, _, _, _, _)
LoopIterations(rec, start, drift, len, st, count) ==
    IF count = 0 \/ ~(st.i < len) THEN st
    ELSE IF count = 1 THEN LoopBody(rec, start, drift, st)
    ELSE LET half == count \div 2
         IN  LoopIterations(rec, start, drift, len,
                            LoopIterations(rec, start, drift, len, st, half),
                            count - half)

\* A variant of the loop with the condition i <= len
SweepLoopInclusive(rec, start, drift, len, st) ==
    LoopIterations(rec, start, drift, len + 1, st, len + 1)

\* for (let i = 0; i < 3600; i += 10) { ... }, with len for 3600: i is at
\* least the number of iterations done, so len iterations are never all needed
SweepLoop(rec, start, drift, len, st) ==
    LoopIterations(rec, start, drift, len, st, len)

----------------------------------------------------------------------------
(* The component *)

RunIds == 1..MaxRuns

NoCall == [published |-> FALSE]
NoHover == [t |-> "null"]

\* the position samples of '/simple.czml' for 'Satellite/Geoeye1': data of
\* the file, which the viewer only reads
CzmlSamples ==
    << [time |-> JulianFromDate(StartOfTime),
        position |-> Cartesian3(Num(500000), Num(0), Num(0))],
       [time |-> JulianFromDate(StartOfTime + 1800000),
        position |-> Cartesian3(Num(0), Num(500000), Num(0))] >>

\* wall-clock ms one iteration of the sampling loop may take
IterationCosts == {0, 1}

\* ms that may pass from one rendered frame to the next: a frame period, or
\* a pause of the page
FrameAdvance == {FrameMs, 25000}

\* what a resolved load may hold: the satellite entity with a position, or not
CzmlDocuments == {[hasSatellite |-> TRUE], [hasSatellite |-> FALSE]}


Init ==
    /\ satrec \in Satrecs
    /\ iterationMs \in IterationCosts
    /\ czml \in CzmlDocuments
    /\ duration = ShortSweepSeconds
    /\ now = StartOfTime
    /\ mounted = TRUE
    /\ runs = 0
    /\ viewerRef = 0
    /\ viewerState = [r \in RunIds |-> "none"]
    /\ handlerAlive = [r \in RunIds |-> FALSE]
    /\ samples = [r \in RunIds |-> <<>>]
    /\ sweepDone = [r \in RunIds |-> FALSE]
    /\ sweepStart = [r \in RunIds |-> 0]
    /\ entities = [r \in RunIds |-> <<>>]
    /\ dataSources = [r \in RunIds |-> <<>>]
    /\ tickListeners = [r \in RunIds |-> <<>>]
    /\ clockTime = [r \in RunIds |-> JulianFromDate(0)]
    /\ cylinder = [r \in RunIds |-> <<>>]
    /\ load = [r \in RunIds |-> "none"]
    /\ footprintArea = [t |-> "number", v |-> 0]
    /\ footprintCall = NoCall
    /\ hoverInfo = NoHover
    /\ frames = 0
    /\ callArgs = [fn |-> "none"]
    /\ callResult = [fn |-> "none"]

\* the cleanup the effect returns, lines 204-207, for the run that is live
Cleanup(state) ==
    [r \in RunIds |-> IF state[r] = "live" THEN "destroyed" ELSE state[r]]

\* the position property a closure of run `by` holds: the run's own sampled
\* property, or the CZML satellite's
PositionPropertyOf(source, by) ==
    IF source = "tle" THEN samples[by] ELSE CzmlSamples

\* A variant with one position property shared by the runs so far
SharedPositionProperty(r, ss) ==
    [q \in RunIds |-> IF q <= r THEN ss ELSE samples[q]]

\* const positionProperty = new SampledPositionProperty(), line 68: each run
\* of the effect fills a property of its own
NewPositionProperty(r, ss) == [samples EXCEPT ![r] = ss]

\* The effect, lines 39-208, run after the cleanup of the run before it (if
\* any): the viewer, the sampling loop, the three entities, the tick
\* listener, the start of the CZML load, the mouse handler.
RunEffect ==
    /\ mounted
    /\ runs < MaxRuns
    /\ LET drift == iterationMs
           r == runs + 1
           st == SweepLoop(satrec, now, drift, duration,
                           [i |-> 0, n |-> 0, samples |-> <<>>,
                            footprintArea |-> footprintArea,
                            footprintCall |-> footprintCall])
       IN  /\ runs' = r
           /\ viewerState' = [Cleanup(viewerState) EXCEPT ![r] = "live"]
           /\ handlerAlive' = [h \in RunIds |-> h = r]
           /\ viewerRef' = r
           /\ clockTime' = [clockTime EXCEPT ![r] = JulianNow(now)]
           /\ sweepStart' = [sweepStart EXCEPT ![r] = now]
           /\ samples' = NewPositionProperty(r, st.samples)
           /\ sweepDone' = [sweepDone EXCEPT ![r] = TRUE]
           /\ footprintArea' = st.footprintArea
           /\ footprintCall' = st.footprintCall
           /\ now' = WallClockAt(now, drift, st.n)
           /\ entities' = [entities EXCEPT ![r] =
                             << [kind |-> "satellite", by |-> r],
                                [kind |-> "path", by |-> r],
                                [kind |-> "fov", by |-> r] >>]
           /\ tickListeners' = [tickListeners EXCEPT ![r] =
                                  << [source |-> "tle", by |-> r] >>]
           /\ load' = [load EXCEPT ![r] = "pending"]
    /\ UNCHANGED <<satrec, iterationMs, czml, duration, mounted, dataSources, cylinder,
                   hoverInfo, frames, callArgs, callResult>>

\* The component is mounted: the effect runs for the first time.
Mount ==
    /\ runs = 0
    /\ RunEffect

\* handleSatelliteColorChange and handleFovColorChange, lines 210-216: the
\* state holds a new Color object, the component renders again, and since a
\* dependency of the effect changed React runs the cleanup and then the
\* effect.  (The colours themselves only paint the entities.)
ColorChange ==
    /\ runs > 0
    /\ RunEffect

\* The component is removed: React runs the cleanup of the last effect run.
Unmount ==
    /\ mounted
    /\ mounted' = FALSE
    /\ viewerState' = Cleanup(viewerState)
    /\ handlerAlive' = [h \in RunIds |-> FALSE]
    /\ UNCHANGED <<satrec, iterationMs, czml, duration, now, runs, viewerRef, samples, sweepDone,
                   sweepStart, entities, dataSources, tickListeners,
                   clockTime, cylinder, load, footprintArea, footprintCall,
                   hoverInfo, frames, callArgs,
                   callResult>>

\* A clock.onTick listener, lines 118-126 and 175-183: acc is the React
\* state it may set.
TickListener(l, currentJulianDate, acc) ==
    LET currentCartesianPosition ==
            getValue(PositionPropertyOf(l.source, l.by), currentJulianDate)
    IN  IF ~Falsy(currentCartesianPosition)
        THEN LET currentHeight == Magnitude(currentCartesianPosition)
                 footprint == calculateFovFootprint(currentHeight, FovAngle)
             IN  [footprintArea |-> footprint,
                  footprintCall |-> [published |-> TRUE,
                                     height |-> currentHeight,
                                     fovAngle |-> FovAngle,
                                     position |-> currentCartesianPosition,
                                     at |-> currentJulianDate]]
        ELSE acc

RECURSIVE RaiseOnTick(_, _, _, _)
RaiseOnTick(ls, k, time, acc) ==
    IF k > Len(ls) THEN acc
    ELSE RaiseOnTick(ls, k + 1, time, TickListener(ls[k], time, acc))

\* The CallbackProperty pair of a fov cylinder, lines 101-112 and 150-165,
\* evaluated when the wall clock reads `wall`
CylinderCallbacks(e, wall) ==
    LET lastPosition == getValue(PositionPropertyOf(IF e.kind = "fov" THEN "tle" ELSE "czml", e.by),
                                 JulianNow(wall))
        tan == MathTan(degreesToRadians(CylinderHalfAngleMilliDeg))
    IN  IF Falsy(lastPosition)
        THEN IF e.kind = "fov"
             THEN [length |-> 0, bottomRadius |-> 0]
             ELSE [length |-> 1000000, bottomRadius |-> 500000]
        ELSE LET m == Magnitude(lastPosition).v
             IN  [length |-> (m * 3) \div 2, bottomRadius |-> (m * tan) \div 100]

IsFov(e) == e.kind \in {"fov", "czmlFov"}

\* One rendered frame of a live viewer: the clock advances by the wall time
\* that passed, the cylinders' callback properties are evaluated, and the
\* tick listeners run in the order they were added.
Frame(v) ==
    /\ viewerState[v] = "live"
    /\ frames < MaxFrames
    /\ \E dt \in FrameAdvance :
         LET time == JulianAddMs(clockTime[v], dt)
             acc == RaiseOnTick(tickListeners[v], 1, time,
                                [footprintArea |-> footprintArea,
                                 footprintCall |-> footprintCall])
             fovs == SelectSeq(entities[v], IsFov)
         IN  /\ now' = now + dt
             /\ clockTime' = [clockTime EXCEPT ![v] = time]
             /\ cylinder' = [cylinder EXCEPT ![v] =
                               [k \in 1..Len(fovs) |-> CylinderCallbacks(fovs[k], now + dt)]]
             /\ footprintArea' = acc.footprintArea
             /\ footprintCall' = acc.footprintCall
    /\ frames' = frames + 1
    /\ UNCHANGED <<satrec, iterationMs, czml, duration, mounted, runs, viewerRef,
                   viewerState, handlerAlive, samples, sweepDone, sweepStart,
                   entities, dataSources, tickListeners, load, hoverInfo,
                   callArgs, callResult>>

\* viewer.dataSources of a viewer: undefined once the viewer is destroyed
\* (Viewer.destroy destroys the collection it created)
DataSourcesDefined(v) == viewerState[v] = "live"

\* The continuation of run r's czmlDataSource.load, lines 129-189
LoadResolved(r) ==
    /\ load[r] = "pending"
    /\ load' = [load EXCEPT ![r] = "resolved"]
    /\ LET doc == czml
             viewer == viewerRef
         IN  IF viewer # 0 /\ DataSourcesDefined(viewer)
             THEN /\ dataSources' = [dataSources EXCEPT ![viewer] =
                                       Append(@, [by |-> r])]
                  /\ IF doc.hasSatellite
                     THEN /\ entities' = [entities EXCEPT ![viewer] =
                                            Append(@, [kind |-> "czmlFov", by |-> r])]
                          /\ tickListeners' = [tickListeners EXCEPT ![viewer] =
                                                 Append(@, [source |-> "czml", by |-> r])]
                     ELSE UNCHANGED <<entities, tickListeners>>
             ELSE UNCHANGED <<dataSources, entities, tickListeners>>
    /\ UNCHANGED <<satrec, iterationMs, czml, duration, now, mounted, runs, viewerRef,
                   viewerState, handlerAlive, samples, sweepDone, sweepStart,
                   clockTime, cylinder, footprintArea, footprintCall,
                   hoverInfo, frames, callArgs,
                   callResult>>

\* The load fails: the catch of lines 190-192 logs the error
LoadRejected(r) ==
    /\ load[r] = "pending"
    /\ load' = [load EXCEPT ![r] = "rejected"]
    /\ UNCHANGED <<satrec, iterationMs, czml, duration, now, mounted, runs, viewerRef,
                   viewerState, handlerAlive, samples, sweepDone, sweepStart,
                   entities, dataSources, tickListeners, clockTime, cylinder,
                   footprintArea, footprintCall, hoverInfo, frames, callArgs, callResult>>

\* The MOUSE_MOVE input action of run r's handler, lines 195-202: the scene
\* picks nothing (0) or one of the viewer's entities
MouseMove(r) ==
    /\ handlerAlive[r]
    /\ \E picked \in 0..Len(entities[r]) :
         hoverInfo' = IF picked = 0 THEN NoHover
                      ELSE [t |-> "id"]
    /\ UNCHANGED <<satrec, iterationMs, czml, duration, now, mounted, runs, viewerRef,
                   viewerState, handlerAlive, samples, sweepDone, sweepStart,
                   entities, dataSources, tickListeners, clockTime, cylinder,
                   load, footprintArea, footprintCall, frames, callArgs, callResult>>

Next ==
    \/ Mount
    \/ ColorChange
    \/ Unmount
    \/ \E v \in RunIds : Frame(v)
    \/ \E r \in RunIds : LoadResolved(r)
    \/ \E r \in RunIds : LoadRejected(r)
    \/ \E r \in RunIds : MouseMove(r)

Spec == Init /\ [][Next]_vars

----------------------------------------------------------------------------
(* The effect alone, at the code's sweep length: the component is mounted   *)
(* and its colours are changed, over more orbits, loop speeds and starting  *)
(* instants.                                                                *)

SweepSatrecs ==
    {ValidOrbit, DecayedOrbit,
     WindowOrbit(StartOfTime, StartOfTime + 5000),
     WindowOrbit(StartOfTime + 5000, StartOfTime + 25000),
     WindowOrbit(StartOfTime + 1795000, StartOfTime + 1815000),
     WindowOrbit(StartOfTime + 3575000, StartOfTime + 4000000)}

SweepIterationCosts == {0, 1, 3}

SweepStarts == {StartOfTime, StartOfTime + 7}

InitSweep ==
    /\ satrec \in SweepSatrecs
    /\ iterationMs \in SweepIterationCosts
    /\ czml = [hasSatellite |-> TRUE]
    /\ duration = SweepSeconds
    /\ now \in SweepStarts
    /\ mounted = TRUE
    /\ runs = 0
    /\ viewerRef = 0
    /\ viewerState = [r \in RunIds |-> "none"]
    /\ handlerAlive = [r \in RunIds |-> FALSE]
    /\ samples = [r \in RunIds |-> <<>>]
    /\ sweepDone = [r \in RunIds |-> FALSE]
    /\ sweepStart = [r \in RunIds |-> 0]
    /\ entities = [r \in RunIds |-> <<>>]
    /\ dataSources = [r \in RunIds |-> <<>>]
    /\ tickListeners = [r \in RunIds |-> <<>>]
    /\ clockTime = [r \in RunIds |-> JulianFromDate(0)]
    /\ cylinder = [r \in RunIds |-> <<>>]
    /\ load = [r \in RunIds |-> "none"]
    /\ footprintArea = [t |-> "number", v |-> 0]
    /\ footprintCall = NoCall
    /\ hoverInfo = NoHover
    /\ frames = 0
    /\ callArgs = [fn |-> "none"]
    /\ callResult = [fn |-> "none"]

NextSweep ==
    \/ Mount
    \/ ColorChange

SpecSweep == InitSweep /\ [][NextSweep]_vars

----------------------------------------------------------------------------
(* The two helpers called directly, on arguments drawn from small sets.     *)

CallDates == {StartOfTime, StartOfTime + 10000, StartOfTime + 30000}
CallHeights == {Num(-1000), Num(0), Num(1000), Num(2000), NaN}
CallFovAngles == {0, 45, 90, 180, 200}

InitHelpers ==
    /\ satrec \in Satrecs
    /\ callArgs \in [date : CallDates, height : CallHeights, fovAngle : CallFovAngles]
    /\ callResult = [fn |-> "none"]
    /\ iterationMs = 0
    /\ czml = [hasSatellite |-> TRUE]
    /\ duration = SweepSeconds
    /\ now = StartOfTime
    /\ mounted = FALSE
    /\ runs = 0
    /\ viewerRef = 0
    /\ viewerState = [r \in RunIds |-> "none"]
    /\ handlerAlive = [r \in RunIds |-> FALSE]
    /\ samples = [r \in RunIds |-> <<>>]
    /\ sweepDone = [r \in RunIds |-> FALSE]
    /\ sweepStart = [r \in RunIds |-> 0]
    /\ entities = [r \in RunIds |-> <<>>]
    /\ dataSources = [r \in RunIds |-> <<>>]
    /\ tickListeners = [r \in RunIds |-> <<>>]
    /\ clockTime = [r \in RunIds |-> JulianFromDate(0)]
    /\ cylinder = [r \in RunIds |-> <<>>]
    /\ load = [r \in RunIds |-> "none"]
    /\ footprintArea = [t |-> "number", v |-> 0]
    /\ footprintCall = NoCall
    /\ hoverInfo = NoHover
    /\ frames = 0

CallPositionAtTime ==
    /\ callResult.fn = "none"
    /\ callResult' = [fn |-> "calculatePositionAtTime",
                      value |-> calculatePositionAtTime(satrec, callArgs.date)]
    /\ UNCHANGED <<satrec, iterationMs, czml, duration, now, mounted, runs,
                   viewerRef, viewerState, handlerAlive, samples, sweepDone,
                   sweepStart, entities, dataSources, tickListeners, clockTime,
                   cylinder, load, footprintArea, footprintCall, hoverInfo,
                   frames, callArgs>>

CallFovFootprint ==
    /\ callResult.fn = "none"
    /\ callResult' = [fn |-> "calculateFovFootprint",
                      value |-> calculateFovFootprint(callArgs.height, callArgs.fovAngle)]
    /\ UNCHANGED <<satrec, iterationMs, czml, duration, now, mounted, runs,
                   viewerRef, viewerState, handlerAlive, samples, sweepDone,
                   sweepStart, entities, dataSources, tickListeners, clockTime,
                   cylinder, load, footprintArea, footprintCall, hoverInfo,
                   frames, callArgs>>

NextHelpers ==
    \/ CallPositionAtTime
    \/ CallFovFootprint

SpecHelpers == InitHelpers /\ [][NextHelpers]_vars

----------------------------------------------------------------------------
(* Properties *)

\* the number of iterations of a loop over `duration` seconds
NominalCount == (duration + (StepSeconds - 1)) \div StepSeconds

\* the instant iteration k of run r's loop samples: JulianDate.now() read in
\* that iteration, plus i = k * step seconds
SampleInstant(r, k) ==
    JulianAddSeconds(LoopNow(sweepStart[r], iterationMs, k), k * StepSeconds)

\* the iterations of run r's loop whose propagation fails
FailedInstants(r) ==
    {k \in 0..(NominalCount - 1) :
        PropagationFails(satrec, JulianToDate(SampleInstant(r, k)))}

SampleTimes(r) == {samples[r][j].time : j \in 1..Len(samples[r])}

FiniteCoordinates(p) == isFinite(p.x) /\ isFinite(p.y) /\ isFinite(p.z)

\* C1: a sweep of 3600 s in steps of 10 s over an orbit whose propagation
\* always succeeds leaves exactly 360 samples, and their instants are strictly
\* increasing (so no two samples share an instant).
C1_FullSweepAdds360IncreasingSamples ==
    \A r \in RunIds :
        (sweepDone[r] /\ satrec.kind = "valid"
            /\ duration = 3600 /\ StepSeconds = 10)
        => /\ Len(samples[r]) = 360
           /\ \A j \in 1..(Len(samples[r]) - 1) :
                  JulianLess(samples[r][j].time, samples[r][j + 1].time)

\* a full sweep over a valid orbit has finished while the wall clock advanced
\* between the iterations
C1_Witness ==
    \E r \in RunIds :
        /\ sweepDone[r]
        /\ satrec.kind = "valid"
        /\ duration = 3600
        /\ iterationMs > 0
        /\ Len(samples[r]) = 360

\* C2: every sampled instant of a sweep is start + k * step, for the one
\* start instant read when the sweep began, whatever the wall clock does
\* between the iterations.
C2_InstantsOnOneGrid ==
    \A r \in RunIds :
        sweepDone[r] =>
            \A j \in 1..Len(samples[r]) :
                \E k \in 0..(NominalCount - 1) :
                    samples[r][j].time =
                        JulianAddSeconds(JulianNow(sweepStart[r]), k * StepSeconds)

\* C3: the instants whose propagation fails are left out and the loop goes
\* on: the sequence holds a sample for every instant that succeeded, and
\* its length is the nominal count less the number of failed instants.
C3_FailedInstantsOmitted ==
    \A r \in RunIds :
        sweepDone[r] =>
            /\ Len(samples[r]) = NominalCount - Cardinality(FailedInstants(r))
            /\ \A k \in 0..(NominalCount - 1) :
                   (k \in FailedInstants(r)) <=> (SampleInstant(r, k) \notin SampleTimes(r))

\* a full sweep in which some instants failed and a later one succeeded
C3_Witness ==
    \E r \in RunIds :
        /\ sweepDone[r]
        /\ duration = 3600
        /\ \E k \in FailedInstants(r) :
               \E j \in 1..Len(samples[r]) :
                   JulianLess(SampleInstant(r, k), samples[r][j].time)

\* C4: when the propagation fails, calculatePositionAtTime returns a value
\* that is not shaped like a position: no record of x, y and z coordinates
\* (NaN or otherwise) stands in for the failure.
C4_FailureIsNotAPosition ==
    (callResult.fn = "calculatePositionAtTime"
        /\ PropagationFails(satrec, callArgs.date))
    => ~({"x", "y", "z"} \subseteq DOMAIN callResult.value)

\* C5: no sample of any position sequence has a non-finite coordinate, and
\* the footprint area on display comes from a finite position: the loop
\* never publishes one for an instant whose propagation failed.
C5_NoFailedInstantReachesTheDisplay ==
    /\ \A r \in RunIds :
           \A j \in 1..Len(samples[r]) :
               /\ FiniteCoordinates(samples[r][j].position)
               /\ ~PropagationFails(satrec, JulianToDate(samples[r][j].time))
    /\ footprintCall.published =>
           /\ FiniteCoordinates(footprintCall.position)
           /\ isFinite(footprintCall.height)
           /\ footprintArea = calculateFovFootprint(footprintCall.height,
                                                    footprintCall.fovAngle)
           /\ footprintArea.hundredths >= 0
           /\ ("height" \in DOMAIN footprintCall.position
                  => ~PropagationFails(satrec, JulianToDate(footprintCall.at)))

\* a sweep in which instants failed has finished, frames were rendered, and
\* a footprint is on display
C5_Witness ==
    \E r \in RunIds :
        /\ sweepDone[r]
        /\ FailedInstants(r) # {}
        /\ Len(samples[r]) > 0
        /\ frames > 0
        /\ footprintCall.published

\* C6: over a decayed orbit every propagation of the sweep fails, the effect
\* still runs to its end, and the position sequence is empty.
C6_DecayedOrbitGivesEmptySequence ==
    \A r \in RunIds :
        (sweepDone[r] /\ satrec.kind = "decayed")
        => /\ FailedInstants(r) = 0..(NominalCount - 1)
           /\ samples[r] = <<>>
           /\ Len(entities[r]) >= 3
           /\ load[r] # "none"

\* a full sweep over a decayed orbit has finished
C6_Witness ==
    \E r \in RunIds :
        /\ sweepDone[r]
        /\ satrec.kind = "decayed"
        /\ duration = 3600
        /\ viewerState[r] = "live"

\* C7: calculateFovFootprint answers an altitude <= 0 or a full field of
\* view >= 180 degrees with a failure, not with an area.
C7_InvalidInputsFail ==
    (callResult.fn = "calculateFovFootprint"
        /\ \/ isFinite(callArgs.height) /\ callArgs.height.v <= 0
           \/ callArgs.fovAngle >= 180)
    => callResult.value.t # "string"

\* C8: the samples of a finished sweep never change: no step (clock tick
\* with its cylinder callbacks, mouse move, load completion, or the sweep of
\* a later run) adds, removes or alters a sample of it.
C8_FinishedSweepIsASnapshot ==
    [][\A r \in RunIds : sweepDone[r] => samples'[r] = samples[r]]_vars

\* frames were rendered, the load completed, the mouse moved over an entity
\* and a later sweep ran, all after a sweep that left samples
C8_Witness ==
    /\ sweepDone[1]
    /\ samples[1] # <<>>
    /\ runs > 1
    /\ frames > 0
    /\ \E r \in RunIds : load[r] = "resolved"
    /\ hoverInfo # NoHover

\* the altitude of a position above the body surface: the geodetic height
\* where the position carries it, else the centre distance less the radius
Altitude(p) ==
    IF "height" \in DOMAIN p THEN p.height
    ELSE Num(Magnitude(p).v - BodyRadiusKm)

\* C9: every footprint area on display was computed from the altitude of
\* the position above the body surface and the full field-of-view angle.
C9_FootprintFromAltitude ==
    footprintCall.published =>
        /\ footprintCall.height = Altitude(footprintCall.position)
        /\ footprintCall.fovAngle = FovAngle

\* C10: the continuation of run r's load changes the data sources, entities
\* and tick listeners of no viewer but run r's own, and of that one only
\* while it is live; no viewer ever holds more than one CZML data source.
C10_LoadTouchesOnlyItsOwnViewer ==
    [][\A r \in RunIds :
          (load[r] = "pending" /\ load'[r] = "resolved") =>
              /\ \A v \in RunIds :
                     (v # r \/ viewerState[v] # "live") =>
                         /\ dataSources'[v] = dataSources[v]
                         /\ entities'[v] = entities[v]
                         /\ tickListeners'[v] = tickListeners[v]
              /\ \A v \in RunIds : Len(dataSources'[v]) <= 1]_vars

====
